---------------------------- MODULE Spec2Model ----------------------------
(***************************************************************************)
(* easytiming: a scoped execution timer (src/src/lib.rs, `Timing`) and the *)
(* wrapper that times a futures-0.1 computation (src/src/future.rs,        *)
(* `future::Timing`).  One timer instance is followed from construction    *)
(* through Display calls and drive steps to its drop; the clock stops      *)
(* being read when the instance is gone.  Instants and durations are       *)
(* nanosecond counts of the monotonic clock.                               *)
(***************************************************************************)
EXTENDS Integers, Sequences, TLC

VARIABLES
    now,         \* the monotonic clock, std::time::Instant::now(), in ns
    ticks,       \* how many times the clock has advanced
    life,        \* "unborn", "live" or "dropped": the instance's lifetime
    kind,        \* "none", "plain" (lib.rs Timing) or "future" (future.rs Timing)
    timing,      \* the fields of the struct
    stdout,      \* the lines println! has put on the console
    made,        \* how the instance was built: constructor, arguments, instant
    shown,       \* what the last two Display calls have produced
    polled,      \* what the inner computation returned from its last poll
    returned,    \* what the wrapper returned from its last poll
    drives,      \* drive steps the consumer has made on the wrapper
    finishCalls, \* calls of finish()
    reportCalls, \* calls of report()
    io,          \* what the writer answered to the report: "none", "Ok" or "Err"
    dropped      \* how the lifetime ended: path, instant, outcome

vars == <<now, ticks, life, kind, timing, stdout, made, shown, polled,
          returned, drives, finishCalls, reportCalls, io, dropped>>

-----------------------------------------------------------------------------
(* Bounds of the model *)

MaxTicks == 2
MaxPolls == 2
MaxRoom == 1

(* std::time::Duration::subsec_nanos is the duration's nanoseconds modulo this *)
NanosPerSec == 1000000000

(* the clock advances by a nanosecond or by seven tenths of a second *)
LongStep == 7 * (NanosPerSec \div 10)

Steps == {1, LongStep}

-----------------------------------------------------------------------------
(* Names: N: Into<Cow<'a, str>> *)

NameArgs ==
    {[form |-> "str", text |-> "timing"],
     [form |-> "String", text |-> "catch"],
     [form |-> "CowBorrowed", text |-> "catch"],
     [form |-> "CowOwned", text |-> ""]}

(* name.into(): &str and Cow::Borrowed borrow, String and Cow::Owned own *)
IntoCow(n) ==
    [own  |-> IF n.form \in {"str", "CowBorrowed"} THEN "Borrowed" ELSE "Owned",
     text |-> n.text]

(* Default::default() of Cow<str>: the owned empty string *)
DefaultName == [own |-> "Owned", text |-> ""]

-----------------------------------------------------------------------------
(* Writers: W: Write.  A Vec<u8> keeps every byte, io::sink() accepts and   *)
(* discards them, and a faulty writer keeps `room` more writes and then     *)
(* answers every write with an error.                                      *)

Writers ==
    {[type |-> "Vec", out |-> <<>>, room |-> 0],
     [type |-> "Null", out |-> <<>>, room |-> 0]}
    \cup {[type |-> "Faulty", out |-> <<>>, room |-> r] : r \in 0..MaxRoom}

(* Write::write_all of one piece of text *)
WriteAll(w, s) ==
    CASE w.type = "Vec"  -> [w |-> [w EXCEPT !.out = Append(@, s)], res |-> "Ok"]
      [] w.type = "Null" -> [w |-> w, res |-> "Ok"]
      [] OTHER ->
            IF w.room > 0
            THEN [w |-> [w EXCEPT !.out = Append(@, s), !.room = @ - 1], res |-> "Ok"]
            ELSE [w |-> w, res |-> "Err"]

(* Write::write_fmt: the pieces are written in order, stopping at the first error *)
RECURSIVE WriteFmt(_, _)
WriteFmt(w, pieces) ==
    IF pieces = <<>> THEN [w |-> w, res |-> "Ok"]
    ELSE LET r == WriteAll(w, Head(pieces))
         IN  IF r.res = "Err" THEN r ELSE WriteFmt(r.w, Tail(pieces))

RECURSIVE Concat(_)
Concat(pieces) ==
    IF pieces = <<>> THEN "" ELSE Head(pieces) \o Concat(Tail(pieces))

-----------------------------------------------------------------------------
(* The inner computation of future::Timing, A: Future.  It is opaque: its   *)
(* state is the number of polls it has had, and what a poll returns is an  *)
(* input of the drive step.                                                *)

NoResult == [tag |-> "none", val |-> 0]
NotReady == [tag |-> "NotReady", val |-> 0]
PollResults ==
    {NotReady, [tag |-> "Ready", val |-> 1], [tag |-> "Err", val |-> 7]}

NewInner == [polls |-> 0]

(* self.inner.poll(), returning r *)
InnerPoll(inner, r) == [result |-> r, inner |-> [inner EXCEPT !.polls = @ + 1]]

-----------------------------------------------------------------------------
(* src/src/lib.rs *)

None == [some |-> FALSE, at |-> 0]
Some(i) == [some |-> TRUE, at |-> i]

SinkPrintln == [tag |-> "Println"]
SinkWriter(w) == [tag |-> "Writer", w |-> w]

(* impl Default for Timing *)
Default ==
    [start |-> now, lapse |-> 0, name |-> DefaultName, quiet |-> FALSE,
     sink |-> SinkPrintln]

(* a constructor that drops its name argument *)
NewUnnamed(name) == Default

(* Timing::new *)
New(name) == [Default EXCEPT !.name = IntoCow(name)]

(* Timing::quiet *)
Quiet == [Default EXCEPT !.quiet = TRUE]

(* Timing::with_writer *)
WithWriter(name, writer) ==
    [Default EXCEPT !.name = IntoCow(name), !.sink = SinkWriter(writer)]

(* the subtraction with its operands exchanged *)
ElapsedSwapped(self) == self.start - now

(* Timing::elapsed *)
Elapsed(self) == now - self.start

(* Timing::name *)
Name(self) == self.name.text

(* the whole duration in nanoseconds instead of its sub-second part *)
TotalNanos(d) == d

(* Duration::subsec_nanos as report uses it *)
SubsecNanos(d) == d % NanosPerSec

(* the pieces of format_args!("\"{}\" was running for {} ns", name, nanos) *)
ReportPieces(self) ==
    <<"\"", self.name.text, "\" was running for ",
      ToString(SubsecNanos(self.lapse)), " ns">>

(* Timing::report *)
Report(self, out) ==
    IF self.sink.tag = "Println"
    THEN [self |-> self, out |-> Append(out, Concat(ReportPieces(self))),
          io |-> "none", panic |-> FALSE, reports |-> 1, finishes |-> 1]
    ELSE LET r == WriteFmt(self.sink.w, ReportPieces(self))
         IN  \* unwrap_or_default: an Err becomes ()
             [self |-> [self EXCEPT !.sink.w = r.w], out |-> out,
              io |-> r.res, panic |-> FALSE, reports |-> 1, finishes |-> 1]

(* finish without the early return of a quiet timer *)
FinishIgnoresQuiet(self, out) == Report([self EXCEPT !.lapse = Elapsed(self)], out)

(* Timing::finish *)
Finish(self, out) ==
    LET s == [self EXCEPT !.lapse = Elapsed(self)]
    IN  IF s.quiet
        THEN [self |-> s, out |-> out, io |-> "none", panic |-> FALSE,
              reports |-> 0, finishes |-> 1]
        ELSE Report(s, out)

(* impl Drop for Timing *)
Drop(self, out) == Finish(self, out)

(* impl Display for Timing: "Timing({}) is running for {:?}" *)
Fmt(self) == [name |-> Name(self), running |-> Elapsed(self)]

-----------------------------------------------------------------------------
(* src/src/future.rs *)

(* future::Timing::new *)
FutureNew(inner, name) ==
    [inner |-> inner, start |-> now, completed |-> None, lapse |-> 0,
     name |-> IntoCow(name), quiet |-> FALSE, sink |-> SinkPrintln]

(* future::Timing::with_writer *)
FutureWithWriter(inner, name, writer) ==
    [inner |-> inner, start |-> now, completed |-> None, lapse |-> 0,
     name |-> IntoCow(name), quiet |-> FALSE, sink |-> SinkWriter(writer)]

(* FutureExt::timing *)
TimingExt(inner, name) == FutureNew(inner, name)

(* elapsed measured to the settlement once there is one *)
ElapsedToCompleted(self) ==
    IF self.completed.some THEN self.completed.at - self.start ELSE now - self.start

(* future::Timing::elapsed *)
FutureElapsed(self) == now - self.start

(* future::Timing::name *)
FutureName(self) == self.name.text

(* future::Timing::report: the line is formatted first and written in one piece *)
FutureReport(self, out) ==
    LET output == Concat(<<"\"", self.name.text, "\" was running for ",
                           ToString(SubsecNanos(self.lapse)), " ns">>)
    IN  IF self.sink.tag = "Println"
        THEN [self |-> self, out |-> Append(out, output),
              io |-> "none", panic |-> FALSE, reports |-> 1, finishes |-> 1]
        ELSE LET r == WriteFmt(self.sink.w, <<output>>)
             IN  \* unwrap: an Err panics
                 [self |-> [self EXCEPT !.sink.w = r.w], out |-> out,
                  io |-> r.res, panic |-> (r.res = "Err"), reports |-> 1,
                  finishes |-> 1]

(* finish that never reports *)
FutureFinishSilent(self, out) ==
    [self |-> [self EXCEPT !.lapse = FutureElapsed(self)], out |-> out,
     io |-> "none", panic |-> FALSE, reports |-> 0, finishes |-> 1]

(* future::Timing::finish *)
FutureFinish(self, out) ==
    LET s == [self EXCEPT !.lapse = FutureElapsed(self)]
    IN  IF s.quiet
        THEN [self |-> s, out |-> out, io |-> "none", panic |-> FALSE,
              reports |-> 0, finishes |-> 1]
        ELSE FutureReport(s, out)

(* impl Drop for future::Timing *)
FutureDrop(self, out) == FutureFinish(self, out)

(* impl Display for future::Timing *)
FutureFmt(self) == [name |-> FutureName(self), running |-> FutureElapsed(self)]

(* poll that hides the inner failure from the consumer *)
FuturePollSwallows(self, r) ==
    LET p == InnerPoll(self.inner, r)
        s == [self EXCEPT !.inner = p.inner]
    IN  [self   |-> IF p.result.tag \in {"Ready", "Err"}
                    THEN [s EXCEPT !.completed = Some(now)]
                    ELSE s,
         polled |-> p.result,
         result |-> IF p.result.tag = "Err" THEN NotReady ELSE p.result]

(* poll that records the settlement in start *)
FuturePollRestarts(self, r) ==
    LET p == InnerPoll(self.inner, r)
        s == [self EXCEPT !.inner = p.inner]
    IN  [self   |-> IF p.result.tag \in {"Ready", "Err"}
                    THEN [s EXCEPT !.start = now]
                    ELSE s,
         polled |-> p.result,
         result |-> p.result]

(* impl Future for Timing: poll *)
FuturePoll(self, r) ==
    LET p == InnerPoll(self.inner, r)
        s == [self EXCEPT !.inner = p.inner]
    IN  [self   |-> IF p.result.tag \in {"Ready", "Err"}
                    THEN [s EXCEPT !.completed = Some(now)]
                    ELSE s,
         polled |-> p.result,
         result |-> p.result]

-----------------------------------------------------------------------------
(* The state machine *)

NoTiming == [start |-> 0, lapse |-> 0, name |-> DefaultName, quiet |-> FALSE,
             sink |-> SinkPrintln]

NoName == [form |-> "none", text |-> ""]
NoWriter == [type |-> "none", out |-> <<>>, room |-> 0]

NotDropped == [path |-> "none", at |-> 0, outcome |-> "none"]

(* how a lifetime ends *)
Paths == {"scope", "explicit", "return", "unwind"}

Init ==
    /\ now = 0
    /\ ticks = 0
    /\ life = "unborn"
    /\ kind = "none"
    /\ timing = NoTiming
    /\ stdout = <<>>
    /\ made = [ctor |-> "none", name |-> NoName, writer |-> NoWriter, at |-> 0]
    /\ shown = <<>>
    /\ polled = NoResult
    /\ returned = NoResult
    /\ drives = 0
    /\ finishCalls = 0
    /\ reportCalls = 0
    /\ io = "none"
    /\ dropped = NotDropped

(* the clock advances *)
Tick ==
    /\ life # "dropped"
    /\ ticks < MaxTicks
    /\ \E d \in Steps : now' = now + d
    /\ ticks' = ticks + 1
    /\ UNCHANGED <<life, kind, timing, stdout, made, shown, polled,
                   returned, drives, finishCalls, reportCalls, io, dropped>>

Construct(k, ctor, name, writer, value) ==
    /\ life = "unborn"
    /\ life' = "live"
    /\ kind' = k
    /\ timing' = value
    /\ made' = [ctor |-> ctor, name |-> name, writer |-> writer, at |-> now]
    /\ UNCHANGED <<now, ticks, stdout, shown, polled, returned, drives,
                   finishCalls, reportCalls, io, dropped>>

CallNew == \E n \in NameArgs : Construct("plain", "new", n, NoWriter, New(n))

CallQuiet == Construct("plain", "quiet", NoName, NoWriter, Quiet)

CallWithWriter ==
    \E n \in NameArgs, w \in Writers :
        Construct("plain", "with_writer", n, w, WithWriter(n, w))

CallFutureNew ==
    \E n \in NameArgs :
        Construct("future", "future::new", n, NoWriter, FutureNew(NewInner, n))

CallFutureWithWriter ==
    \E n \in NameArgs, w \in Writers :
        Construct("future", "future::with_writer", n, w,
                  FutureWithWriter(NewInner, n, w))

CallTiming ==
    \E n \in NameArgs :
        Construct("future", "timing", n, NoWriter, TimingExt(NewInner, n))

(* println!("{}", t) of the caller: Display::fmt *)
CallFmt ==
    /\ life = "live"
    /\ LET text == IF kind = "plain" THEN Fmt(timing) ELSE FutureFmt(timing)
       IN  shown' = IF Len(shown) < 2 THEN Append(shown, text)
                    ELSE <<shown[2], text>>
    /\ UNCHANGED <<now, ticks, life, kind, timing, stdout, made, polled,
                   returned, drives, finishCalls, reportCalls, io, dropped>>

(* one drive step of the wrapper *)
CallPoll ==
    /\ life = "live"
    /\ kind = "future"
    /\ drives < MaxPolls
    /\ \E inner \in PollResults :
        LET r == FuturePoll(timing, inner)
        IN  /\ timing' = r.self
            /\ polled' = r.polled
            /\ returned' = r.result
    /\ drives' = drives + 1
    /\ UNCHANGED <<now, ticks, life, kind, stdout, made, shown,
                   finishCalls, reportCalls, io, dropped>>

(* the instance's lifetime ends: the drop glue calls Drop::drop once; a     *)
(* panic out of drop reaches the caller, and aborts the process when the   *)
(* drop is itself part of an unwind                                        *)
CallDrop ==
    /\ life = "live"
    /\ \E path \in Paths :
        LET r == IF kind = "plain" THEN Drop(timing, stdout)
                 ELSE FutureDrop(timing, stdout)
        IN  /\ timing' = r.self
            /\ stdout' = r.out
            /\ io' = r.io
            /\ finishCalls' = finishCalls + r.finishes
            /\ reportCalls' = reportCalls + r.reports
            /\ dropped' = [path |-> path, at |-> now,
                           outcome |-> IF ~r.panic THEN "ok"
                                       ELSE IF path = "unwind" THEN "abort"
                                       ELSE "panic"]
    /\ life' = "dropped"
    /\ UNCHANGED <<now, ticks, kind, made, shown, polled, returned, drives>>

Next ==
    \/ Tick
    \/ CallNew
    \/ CallQuiet
    \/ CallWithWriter
    \/ CallFutureNew
    \/ CallFutureWithWriter
    \/ CallTiming
    \/ CallFmt
    \/ CallPoll
    \/ CallDrop

Spec == Init /\ [][Next]_vars

-----------------------------------------------------------------------------
(* Properties *)

IsPrefix(a, b) == Len(a) <= Len(b) /\ a = SubSeq(b, 1, Len(a))

(* the report line of section 6 of the specification *)
Line(name, n) == "\"" \o name \o "\" was running for " \o ToString(n) \o " ns"

Settled(r) == r.tag \in {"Ready", "Err"}

HasWriter == timing.sink.tag = "Writer"

(* C1: whichever way the lifetime of either variant ends, finish has run   *)
(* exactly once and report at most once: once when the timer is not quiet, *)
(* not at all when it is; before the drop neither has run and nothing has  *)
(* been emitted.                                                           *)
C1_FinalizedExactlyOnce ==
    /\ life # "dropped" =>
          /\ finishCalls = 0
          /\ reportCalls = 0
          /\ stdout = <<>>
          /\ HasWriter => timing.sink.w.out = <<>>
    /\ life = "dropped" =>
          /\ dropped.path \in Paths
          /\ finishCalls = 1
          /\ reportCalls = (IF timing.quiet THEN 0 ELSE 1)
          /\ Len(stdout) = (IF ~timing.quiet /\ ~HasWriter THEN 1 ELSE 0)

C1_Witness ==
    /\ life = "dropped"
    /\ kind = "future"
    /\ dropped.path = "unwind"
    /\ finishCalls = 1
    /\ reportCalls = 1
    /\ stdout # <<>>

(* C2: when the write of the report to a custom writer fails, the drop of  *)
(* either variant completes normally: no panic reaches the caller, and the *)
(* report is not tried again.                                              *)
C2_WriteFailureSwallowed ==
    (life = "dropped" /\ HasWriter /\ io = "Err") =>
        (dropped.outcome = "ok" /\ reportCalls = 1)

(* C3: every drive step of the wrapper polls the inner computation exactly *)
(* once and returns the result of that poll unchanged.                     *)
C3_PollPassesThrough ==
    kind = "future" =>
        /\ timing.inner.polls = drives
        /\ returned = polled

C3_Witness ==
    /\ kind = "future"
    /\ drives = 2
    /\ timing.inner.polls = 2
    /\ returned = [tag |-> "Err", val |-> 7]

(* C4: completed is absent until the first drive step whose inner result   *)
(* is ready or failure, that step sets it to the current instant, and no   *)
(* later drive step changes it.                                            *)
C4_CompletedSetOnce ==
    [][(life = "live" /\ kind = "future" /\ life' = "live") =>
          /\ timing.completed.some => timing'.completed = timing.completed
          /\ (~timing.completed.some /\ drives' = drives) => ~timing'.completed.some
          /\ (~timing.completed.some /\ drives' # drives) =>
                timing'.completed = (IF Settled(polled') THEN Some(now) ELSE None)
      ]_vars

(* C5: a timer built by quiet() has the empty name and quiet set; its drop *)
(* writes nothing anywhere and still stores lapse = drop instant - start.  *)
C5_QuietWritesNothing ==
    made.ctor = "quiet" =>
        /\ Name(timing) = ""
        /\ timing.quiet
        /\ stdout = <<>>
        /\ ~HasWriter
        /\ life = "dropped" =>
              /\ reportCalls = 0
              /\ io = "none"
              /\ timing.lapse = dropped.at - timing.start

C5_Witness ==
    /\ made.ctor = "quiet"
    /\ life = "dropped"
    /\ timing.lapse > NanosPerSec

(* C6: a timer built by with_writer(name, sink) and dropped has sent that  *)
(* sink one report, "<name>" was running for <N> ns, with N the lapse      *)
(* modulo 1,000,000,000; a sink that keeps what it is given holds exactly  *)
(* that line, no sink holds anything that is not part of it, and nothing   *)
(* goes to the console.                                                    *)
C6_WriterGetsOneReport ==
    (made.ctor = "with_writer" /\ life = "dropped") =>
        LET n == timing.lapse % NanosPerSec
            w == timing.sink.w
        IN  /\ HasWriter
            /\ reportCalls = 1
            /\ stdout = <<>>
            /\ n \in 0..(NanosPerSec - 1)
            /\ w.type = "Vec" => (io = "Ok" /\ Concat(w.out) = Line(made.name.text, n))
            /\ w.type = "Null" => (io = "Ok" /\ w.out = <<>>)
            /\ IsPrefix(w.out, <<"\"", made.name.text, "\" was running for ",
                                 ToString(n), " ns">>)

C6_Witness ==
    /\ made.ctor = "with_writer"
    /\ life = "dropped"
    /\ made.name.text = "catch"
    /\ timing.lapse > NanosPerSec
    /\ timing.sink.w.type = "Vec"
    /\ Concat(timing.sink.w.out) = "\"catch\" was running for 400000000 ns"

(* C7: a dropped wrapper, settled or not, has run finish exactly once with *)
(* lapse = drop instant - start, whatever completed holds, and the drop    *)
(* has not polled the inner computation.                                   *)
C7_DiscardUsesDropInstant ==
    (kind = "future" /\ life = "dropped") =>
        /\ finishCalls = 1
        /\ timing.lapse = dropped.at - timing.start
        /\ timing.inner.polls = drives

C7_Witness ==
    /\ kind = "future"
    /\ life = "dropped"
    /\ timing.completed.some
    /\ timing.completed.at < dropped.at
    /\ timing.lapse # timing.completed.at - timing.start

(* C8: new(N) yields name N, the console sink and quiet = false;           *)
(* with_writer(N, w) yields name N, the writer w and quiet = false;        *)
(* timing(N) yields a wrapper with name N, the console sink, quiet = false *)
(* and completed absent.  N is borrowed or owned text.                     *)
C8_ConstructorsKeepArguments ==
    /\ made.ctor = "new" =>
          /\ kind = "plain"
          /\ Name(timing) = made.name.text
          /\ timing.sink = SinkPrintln
          /\ ~timing.quiet
    /\ made.ctor = "with_writer" =>
          /\ kind = "plain"
          /\ Name(timing) = made.name.text
          /\ HasWriter
          /\ life = "live" => timing.sink = SinkWriter(made.writer)
          /\ ~timing.quiet
    /\ made.ctor = "timing" =>
          /\ kind = "future"
          /\ FutureName(timing) = made.name.text
          /\ timing.sink = SinkPrintln
          /\ ~timing.quiet
          /\ drives = 0 => timing.completed = None

C8_Witness ==
    /\ life = "live"
    /\ made.ctor = "new"
    /\ made.name = [form |-> "String", text |-> "catch"]
    /\ Name(timing) = "catch"
    /\ timing.name.own = "Owned"

(* C9: while the timer is live, Display may be called again and again:     *)
(* every call yields now - start, never negative and never less than the   *)
(* call before, and changes nothing of the timer: lapse stays zero and no  *)
(* report is emitted before the drop.                                      *)
C9_DisplayIsPure ==
    /\ [](life = "live" =>
            /\ timing.lapse = 0
            /\ reportCalls = 0
            /\ stdout = <<>>
            /\ \A i \in DOMAIN shown :
                  /\ shown[i].running >= 0
                  /\ shown[i].running <= now - timing.start
                  /\ shown[i].name = timing.name.text
            /\ Len(shown) = 2 => shown[1].running <= shown[2].running)
    /\ [][shown' # shown =>
            /\ shown'[Len(shown')].running = now - timing.start
            /\ UNCHANGED <<now, timing, life, kind, stdout, finishCalls,
                           reportCalls, io, dropped>>]_vars

C9_Witness ==
    /\ life = "live"
    /\ Len(shown) = 2
    /\ shown[1].running < shown[2].running
    /\ shown[2].running > NanosPerSec
    /\ timing.lapse = 0

(* C10: from construction up to and including the drop, no operation       *)
(* changes start, name, quiet or which sink is selected; start is the      *)
(* construction instant.                                                   *)
C10_ConstructionFieldsFixed ==
    /\ [](life # "unborn" => timing.start = made.at)
    /\ [][life = "live" =>
            /\ timing'.start = timing.start
            /\ timing'.name = timing.name
            /\ timing'.quiet = timing.quiet
            /\ timing'.sink.tag = timing.sink.tag]_vars

C10_Witness ==
    /\ life = "dropped"
    /\ kind = "future"
    /\ HasWriter
    /\ timing.completed.some
    /\ timing.completed.at > timing.start
    /\ timing.start = made.at
    /\ timing.start > 0

=============================================================================
